---------------------------- MODULE Spec2Model ----------------------------
(***************************************************************************)
(* A model of SceneManager (Source/SceneManager.cpp): the texture registry *)
(* (m_textureIDs, m_loadedTextures), the material registry                 *)
(* (m_objectMaterials), the transform composer (SetTransformations) and    *)
(* the scene script (PrepareScene, RenderScene).                           *)
(*                                                                         *)
(* Floating point literals are kept as integers in hundredths              *)
(* (0.5f is 50, 64.0f is 6400); angles are whole degrees.                  *)
(***************************************************************************)
EXTENDS Integers, Sequences, FiniteSets, TLC

VARIABLES
    m_loadedTextures,   \* int m_loadedTextures: number of registered textures
    m_textureIDs,       \* TEXTURE_INFO m_textureIDs[16]: slot -> [ID, tag]
    overrun,            \* number of writes past the end of m_textureIDs
    glGenCount,         \* number of texture names glGenTextures has handed out
    glTextures,         \* the GPU texture objects that exist (names)
    glActiveUnit,       \* the unit selected by glActiveTexture
    glUnits,            \* texture unit -> name bound to its GL_TEXTURE_2D target
    imageBuffers,       \* decoded stb_image buffers not yet freed
    firstID,            \* history: tag -> ID given by the earliest successful
                        \* CreateGLTexture with that tag
    m_objectMaterials,  \* std::vector<OBJECT_MATERIAL> m_objectMaterials
    m_pShaderManager,   \* ShaderManager* m_pShaderManager: "NULL" or "shader"
    uniforms,           \* the shader's uniforms that have been set: name -> value
    uploads,            \* the uniform names the last call has set, in order
    call,               \* the last call made: operation, arguments, result
    loadedMeshes,       \* the meshes m_basicMeshes has loaded
    pc,                 \* the scene function running and its next statement
    prepared,           \* PrepareScene has returned
    frame,              \* the calls the current (or last) RenderScene has made
    firstFrame,         \* the calls the first completed RenderScene made
    prepareCalls        \* the calls PrepareScene has made, with their results

vars == <<m_loadedTextures, m_textureIDs, overrun, glGenCount, glTextures,
          glActiveUnit, glUnits, imageBuffers, firstID,
          m_objectMaterials, m_pShaderManager, uniforms, uploads, call,
          loadedMeshes, pc, prepared, frame, firstFrame, prepareCalls>>

texVars == <<m_loadedTextures, m_textureIDs, overrun>>
glVars  == <<glGenCount, glTextures, glActiveUnit, glUnits, imageBuffers>>
shaderVars == <<m_pShaderManager, uniforms>>
sceneVars == <<loadedMeshes, pc, prepared, frame, firstFrame, prepareCalls>>

---------------------------------------------------------------------------
(* Program constants and model bounds *)

\* capacity of m_textureIDs ("There are up to 16 slots", "(16 max)")
MaxTextureSlots == 16

\* bound: texture names generated in one run of the registry specification
MaxGLNames == 3

\* the tags the registry operations are called with
Tags == {"brick", "wood", "grass"}

\* image files: what stbi_load makes of them (decoded or not, channel count)
Files == { [decoded |-> FALSE, channels |-> 0],
           [decoded |-> TRUE,  channels |-> 1],
           [decoded |-> TRUE,  channels |-> 3],
           [decoded |-> TRUE,  channels |-> 4] }

NoCall == [op |-> "none"]

EmptySlot == [ID |-> 0, tag |-> ""]

---------------------------------------------------------------------------
(* Construction *)

\* The constructor stores the shader manager and creates m_basicMeshes.
\* m_loadedTextures and m_textureIDs are declared in SceneManager.h; the
\* registry is taken to start empty, as every method that reads it assumes.
NoUniforms == [name \in {} |-> 0]

Init ==
    /\ m_objectMaterials = <<>>
    /\ m_pShaderManager = "shader"
    /\ uniforms = NoUniforms
    /\ uploads = <<>>
    /\ m_loadedTextures = 0
    /\ m_textureIDs = [i \in 0..(MaxTextureSlots - 1) |-> EmptySlot]
    /\ overrun = 0
    /\ glGenCount = 0
    /\ glTextures = {}
    /\ glActiveUnit = 0
    /\ glUnits = [u \in 0..(MaxTextureSlots - 1) |-> 0]
    /\ imageBuffers = 0
    /\ firstID = [t \in {} |-> 0]
    /\ call = NoCall
    /\ loadedMeshes = {}
    /\ pc = [fn |-> "idle", i |-> 0]
    /\ prepared = FALSE
    /\ frame = <<>>
    /\ firstFrame = <<>>
    /\ prepareCalls = <<>>

---------------------------------------------------------------------------
(* Texture registry *)

\* the channel counts CreateGLTexture uploads (GL_RGB8, GL_RGBA8)
ChannelsSupported(colorChannels) ==
    colorChannels = 3 \/ colorChannels = 4

\* the bool CreateGLTexture returns for an image file
CreateGLTextureResult(file) ==
    file.decoded /\ ChannelsSupported(file.channels)

\* mutant of RegisterTexture: the tag is not stored
RegisterTextureNoTag(ids, n, textureID, tag) ==
    [ids EXCEPT ![n].ID = textureID]

\* m_textureIDs[m_loadedTextures].ID = textureID; .tag = tag
RegisterTexture(ids, n, textureID, tag) ==
    [ids EXCEPT ![n] = [ID |-> textureID, tag |-> tag]]

\* glGenTextures hands out the next unused name. Once a write has landed
\* past the end of m_textureIDs the behaviour is undefined and the run is
\* followed no further (overrun = 0 guards every registry operation).
CreateGLTexture(file, tag) ==
    LET textureID == glGenCount + 1
    IN
    /\ overrun = 0
    /\ call' = [op |-> "CreateGLTexture", file |-> file, tag |-> tag,
                ret |-> CreateGLTextureResult(file)]
    /\ uploads' = <<>>
    /\ UNCHANGED <<m_objectMaterials, shaderVars>>
    /\ IF file.decoded
       THEN \* glGenTextures, glBindTexture(GL_TEXTURE_2D, textureID)
            /\ glGenCount' = glGenCount + 1
            /\ glTextures' = glTextures \cup {textureID}
            /\ UNCHANGED glActiveUnit
            /\ IF ChannelsSupported(file.channels)
               THEN \* stbi_image_free, glBindTexture(GL_TEXTURE_2D, 0), register
                    /\ imageBuffers' = imageBuffers
                    /\ glUnits' = [glUnits EXCEPT ![glActiveUnit] = 0]
                    /\ IF m_loadedTextures < MaxTextureSlots
                       THEN /\ m_textureIDs' = RegisterTexture(m_textureIDs,
                                       m_loadedTextures, textureID, tag)
                            /\ UNCHANGED overrun
                       ELSE \* the write lands past the end of the array
                            /\ UNCHANGED m_textureIDs
                            /\ overrun' = overrun + 1
                    /\ m_loadedTextures' = m_loadedTextures + 1
                    /\ firstID' = IF tag \in DOMAIN firstID
                                  THEN firstID
                                  ELSE (tag :> textureID) @@ firstID
               ELSE \* "Not implemented to handle image": return false
                    /\ imageBuffers' = imageBuffers + 1
                    /\ glUnits' = [glUnits EXCEPT ![glActiveUnit] = textureID]
                    /\ UNCHANGED <<texVars, firstID>>
       ELSE \* "Could not load image": return false
            /\ UNCHANGED <<texVars, glVars, firstID>>

\* mutant of BindUnits: glActiveTexture is not called, every texture is
\* bound on unit 0
RECURSIVE BindUnitsOneUnit(_, _, _)
BindUnitsOneUnit(units, ids, n) ==
    IF n = 0 THEN units
    ELSE [BindUnitsOneUnit(units, ids, n - 1) EXCEPT ![0] = ids[n - 1].ID]

\* for (i = 0; i < m_loadedTextures; i++) glActiveTexture; glBindTexture
RECURSIVE BindUnits(_, _, _)
BindUnits(units, ids, n) ==
    IF n = 0 THEN units
    ELSE [BindUnits(units, ids, n - 1) EXCEPT ![n - 1] = ids[n - 1].ID]

BindGLTextures ==
    /\ overrun = 0
    /\ call' = [op |-> "BindGLTextures"]
    /\ uploads' = <<>>
    /\ UNCHANGED <<m_objectMaterials, shaderVars>>
    /\ glUnits' = BindUnits(glUnits, m_textureIDs, m_loadedTextures)
    /\ glActiveUnit' = IF m_loadedTextures > 0 THEN m_loadedTextures - 1
                       ELSE glActiveUnit
    /\ UNCHANGED <<texVars, glGenCount, glTextures, imageBuffers, firstID>>

\* for (i = 0; i < m_loadedTextures; i++) glGenTextures(1, &m_textureIDs[i].ID)
RECURSIVE RegenerateIDs(_, _, _)
RegenerateIDs(ids, n, gen) ==
    IF n = 0 THEN ids
    ELSE [RegenerateIDs(ids, n - 1, gen) EXCEPT ![n - 1].ID = gen + n]

DestroyGLTextures ==
    /\ overrun = 0
    /\ call' = [op |-> "DestroyGLTextures"]
    /\ uploads' = <<>>
    /\ UNCHANGED <<m_objectMaterials, shaderVars>>
    /\ m_textureIDs' = RegenerateIDs(m_textureIDs, m_loadedTextures, glGenCount)
    /\ glGenCount' = glGenCount + m_loadedTextures
    /\ glTextures' = glTextures \cup
                       { glGenCount + n : n \in 1..m_loadedTextures }
    /\ UNCHANGED <<m_loadedTextures, overrun, glActiveUnit, glUnits,
                   imageBuffers, firstID>>

\* mutant of ScanTextures: the loop does not stop at the first match
RECURSIVE ScanTexturesLast(_, _, _, _)
ScanTexturesLast(ids, n, tag, index) ==
    IF index < n
    THEN LET rest == ScanTexturesLast(ids, n, tag, index + 1)
         IN IF rest < n THEN rest
            ELSE IF ids[index].tag = tag THEN index ELSE n
    ELSE n

\* the while loop of FindTextureID / FindTextureSlot: the index it stops at
\* (m_loadedTextures when no entry compares equal)
RECURSIVE ScanTextures(_, _, _, _)
ScanTextures(ids, n, tag, index) ==
    IF index < n
    THEN IF ids[index].tag = tag THEN index
         ELSE ScanTextures(ids, n, tag, index + 1)
    ELSE n

FindTextureIDResult(ids, n, tag) ==
    LET index == ScanTextures(ids, n, tag, 0)
    IN IF index < n THEN ids[index].ID ELSE -1

\* mutant of FindTextureSlotResult: slot 0 when no entry carries the tag
FindTextureSlotResultZero(ids, n, tag) ==
    LET index == ScanTextures(ids, n, tag, 0)
    IN IF index < n THEN index ELSE 0

FindTextureSlotResult(ids, n, tag) ==
    LET index == ScanTextures(ids, n, tag, 0)
    IN IF index < n THEN index ELSE -1

FindTextureID(tag) ==
    /\ overrun = 0
    /\ call' = [op |-> "FindTextureID", tag |-> tag,
                ret |-> FindTextureIDResult(m_textureIDs, m_loadedTextures, tag)]
    /\ uploads' = <<>>
    /\ UNCHANGED <<texVars, glVars, firstID, m_objectMaterials, shaderVars>>

FindTextureSlot(tag) ==
    /\ overrun = 0
    /\ call' = [op |-> "FindTextureSlot", tag |-> tag,
                ret |-> FindTextureSlotResult(m_textureIDs, m_loadedTextures, tag)]
    /\ uploads' = <<>>
    /\ UNCHANGED <<texVars, glVars, firstID, m_objectMaterials, shaderVars>>

---------------------------------------------------------------------------
(* Material registry *)

\* bound: calls of DefineObjectMaterials in one run
MaxDefineCalls == 2

\* the tags materials are looked up with
MaterialTags == {"metal", "wood", "glass"}

\* shinyMaterial of DefineObjectMaterials
ShinyMaterial ==
    [ambientColor |-> <<30, 10, 10>>, ambientStrength |-> 10,
     diffuseColor |-> <<30, 30, 30>>, specularColor |-> <<50, 50, 50>>,
     shininess |-> 6400, tag |-> "metal"]

\* dullMaterial of DefineObjectMaterials
DullMaterial ==
    [ambientColor |-> <<10, 10, 10>>, ambientStrength |-> 10,
     diffuseColor |-> <<30, 30, 30>>, specularColor |-> <<10, 10, 10>>,
     shininess |-> 1600, tag |-> "wood"]

\* what an OBJECT_MATERIAL of the caller may hold before FindMaterial fills
\* it: a local that was never assigned holds any value
CallerMaterials ==
    { [ambientColor |-> <<0, 0, 0>>, ambientStrength |-> 0,
       diffuseColor |-> <<0, 0, 0>>, specularColor |-> <<0, 0, 0>>,
       shininess |-> 0, tag |-> ""],
      [ambientColor |-> <<7, 7, 7>>, ambientStrength |-> 7,
       diffuseColor |-> <<7, 7, 7>>, specularColor |-> <<7, 7, 7>>,
       shininess |-> 7, tag |-> ""],
      [ambientColor |-> <<100, 100, 100>>, ambientStrength |-> 100,
       diffuseColor |-> <<100, 100, 100>>, specularColor |-> <<100, 100, 100>>,
       shininess |-> 100, tag |-> "glass"] }

\* mutant of DefineObjectMaterials: only the shiny material is registered
DefineObjectMaterialsMetalOnly ==
    /\ m_objectMaterials' = Append(m_objectMaterials, ShinyMaterial)
    /\ call' = [op |-> "DefineObjectMaterials"]
    /\ uploads' = <<>>
    /\ UNCHANGED <<texVars, glVars, firstID, shaderVars>>

DefineObjectMaterials ==
    /\ m_objectMaterials' =
          Append(Append(m_objectMaterials, ShinyMaterial), DullMaterial)
    /\ call' = [op |-> "DefineObjectMaterials"]
    /\ uploads' = <<>>
    /\ UNCHANGED <<texVars, glVars, firstID, shaderVars>>

\* the while loop of FindMaterial: the index it stops at (1-based;
\* Len(materials) + 1 when no entry compares equal)
RECURSIVE ScanMaterials(_, _, _)
ScanMaterials(materials, tag, index) ==
    IF index <= Len(materials)
    THEN IF materials[index].tag = tag THEN index
         ELSE ScanMaterials(materials, tag, index + 1)
    ELSE Len(materials) + 1

\* mutant of CopyMaterial: shininess is not copied
CopyMaterialNoShininess(material, entry) ==
    [material EXCEPT !.ambientColor = entry.ambientColor,
                     !.ambientStrength = entry.ambientStrength,
                     !.diffuseColor = entry.diffuseColor,
                     !.specularColor = entry.specularColor]

\* the five assignments of FindMaterial (the tag is not copied)
CopyMaterial(material, entry) ==
    [material EXCEPT !.ambientColor = entry.ambientColor,
                     !.ambientStrength = entry.ambientStrength,
                     !.diffuseColor = entry.diffuseColor,
                     !.specularColor = entry.specularColor,
                     !.shininess = entry.shininess]

\* the bool FindMaterial returns
FindMaterialResult(materials, tag) ==
    IF Len(materials) = 0 THEN FALSE ELSE TRUE

\* the caller's material when FindMaterial returns
FindMaterialOut(materials, tag, material) ==
    LET index == ScanMaterials(materials, tag, 1)
    IN IF index <= Len(materials)
       THEN CopyMaterial(material, materials[index])
       ELSE material

FindMaterial(tag, material) ==
    /\ call' = [op |-> "FindMaterial", tag |-> tag, materialIn |-> material,
                ret |-> FindMaterialResult(m_objectMaterials, tag),
                material |-> FindMaterialOut(m_objectMaterials, tag, material)]
    /\ uploads' = <<>>
    /\ UNCHANGED <<texVars, glVars, firstID, m_objectMaterials, shaderVars>>

\* the five uniforms SetShaderMaterial sets, in the order it sets them
MaterialUniforms ==
    <<"material.diffuseColor", "material.specularColor", "material.shininess",
      "material.ambientColor", "material.ambientStrength">>

\* the shader's uniforms after SetShaderMaterial has passed a material in
UploadMaterial(u, material) ==
    ("material.diffuseColor" :> material.diffuseColor) @@
    ("material.specularColor" :> material.specularColor) @@
    ("material.shininess" :> material.shininess) @@
    ("material.ambientColor" :> material.ambientColor) @@
    ("material.ambientStrength" :> material.ambientStrength) @@ u

\* m_pShaderManager is dereferenced without a NULL test: the call returns
\* only when there is a shader manager or nothing to upload
SetShaderMaterial(materialTag) ==
    /\ Len(m_objectMaterials) > 0 => m_pShaderManager # "NULL"
    /\ call' = [op |-> "SetShaderMaterial", tag |-> materialTag]
    /\ IF Len(m_objectMaterials) > 0
       THEN \E local \in CallerMaterials :
              LET bReturn  == FindMaterialResult(m_objectMaterials, materialTag)
                  material == FindMaterialOut(m_objectMaterials, materialTag,
                                              local)
              IN IF bReturn
                 THEN /\ uniforms' = UploadMaterial(uniforms, material)
                      /\ uploads' = MaterialUniforms
                 ELSE /\ uploads' = <<>>
                      /\ UNCHANGED uniforms
       ELSE /\ uploads' = <<>>
            /\ UNCHANGED uniforms
    /\ UNCHANGED <<texVars, glVars, firstID, m_objectMaterials,
                   m_pShaderManager>>

---------------------------------------------------------------------------
(* Shader uniforms set by the scene manager *)

\* the value of 1.0f: floats are integers in hundredths
Unit == 100

\* setIntValue(name, false / true): the int a bool converts to
BoolToInt(b) == IF b THEN 1 ELSE 0

\* mutant of SetShaderColor: bUseTexture is not reset
SetShaderColorKeepsTexture(redColorValue, greenColorValue, blueColorValue, alphaValue) ==
    LET currentColor == <<redColorValue, greenColorValue, blueColorValue,
                          alphaValue>>
    IN
    /\ call' = [op |-> "SetShaderColor", color |-> currentColor]
    /\ IF m_pShaderManager # "NULL"
       THEN /\ uniforms' = ("objectColor" :> currentColor) @@ uniforms
            /\ uploads' = <<"objectColor">>
       ELSE /\ uploads' = <<>>
            /\ UNCHANGED uniforms
    /\ UNCHANGED <<texVars, glVars, firstID, m_objectMaterials,
                   m_pShaderManager>>

SetShaderColor(redColorValue, greenColorValue, blueColorValue, alphaValue) ==
    LET currentColor == <<redColorValue, greenColorValue, blueColorValue,
                          alphaValue>>
    IN
    /\ call' = [op |-> "SetShaderColor", color |-> currentColor]
    /\ IF m_pShaderManager # "NULL"
       THEN /\ uniforms' = ("bUseTexture" :> BoolToInt(FALSE)) @@
                           ("objectColor" :> currentColor) @@ uniforms
            /\ uploads' = <<"bUseTexture", "objectColor">>
       ELSE /\ uploads' = <<>>
            /\ UNCHANGED uniforms
    /\ UNCHANGED <<texVars, glVars, firstID, m_objectMaterials,
                   m_pShaderManager>>

\* mutant of SetShaderTexture: the sampler gets the texture's GL name
SetShaderTextureUploadsID(textureTag) ==
    LET textureID == FindTextureIDResult(m_textureIDs, m_loadedTextures,
                                         textureTag)
    IN
    /\ overrun = 0
    /\ call' = [op |-> "SetShaderTexture", tag |-> textureTag]
    /\ IF m_pShaderManager # "NULL"
       THEN /\ uniforms' = ("bUseTexture" :> BoolToInt(TRUE)) @@
                           ("objectTexture" :> textureID) @@ uniforms
            /\ uploads' = <<"bUseTexture", "objectTexture">>
       ELSE /\ uploads' = <<>>
            /\ UNCHANGED uniforms
    /\ UNCHANGED <<texVars, glVars, firstID, m_objectMaterials,
                   m_pShaderManager>>

SetShaderTexture(textureTag) ==
    LET textureID == FindTextureSlotResult(m_textureIDs, m_loadedTextures,
                                           textureTag)
    IN
    /\ overrun = 0
    /\ call' = [op |-> "SetShaderTexture", tag |-> textureTag]
    /\ IF m_pShaderManager # "NULL"
       THEN /\ uniforms' = ("bUseTexture" :> BoolToInt(TRUE)) @@
                           ("objectTexture" :> textureID) @@ uniforms
            /\ uploads' = <<"bUseTexture", "objectTexture">>
       ELSE /\ uploads' = <<>>
            /\ UNCHANGED uniforms
    /\ UNCHANGED <<texVars, glVars, firstID, m_objectMaterials,
                   m_pShaderManager>>

SetTextureUVScale(u, v) ==
    /\ call' = [op |-> "SetTextureUVScale", uv |-> <<u, v>>]
    /\ IF m_pShaderManager # "NULL"
       THEN /\ uniforms' = ("UVscale" :> <<u, v>>) @@ uniforms
            /\ uploads' = <<"UVscale">>
       ELSE /\ uploads' = <<>>
            /\ UNCHANGED uniforms
    /\ UNCHANGED <<texVars, glVars, firstID, m_objectMaterials,
                   m_pShaderManager>>

\* the uniforms SetupSceneLights sets, in the order it sets them
LightUniformNames ==
    <<
      "bUseLighting",
      "lightSources[0].position",
      "lightSources[0].ambientColor",
      "lightSources[0].diffuseColor",
      "lightSources[0].specularColor",
      "lightSources[0].focalStrength",
      "lightSources[0].specularIntensity",
      "lightSources[1].position",
      "lightSources[1].ambientColor",
      "lightSources[1].diffuseColor",
      "lightSources[1].specularColor",
      "lightSources[1].focalStrength",
      "lightSources[1].specularIntensity",
      "lightSources[2].position",
      "lightSources[2].ambientColor",
      "lightSources[2].diffuseColor",
      "lightSources[2].specularColor",
      "lightSources[2].focalStrength",
      "lightSources[2].specularIntensity",
      "lightSources[3].position",
      "lightSources[3].ambientColor",
      "lightSources[3].diffuseColor",
      "lightSources[3].specularColor",
      "lightSources[3].focalStrength",
      "lightSources[3].specularIntensity"
    >>

\* the values SetupSceneLights gives them
LightUniforms ==
    ("bUseLighting" :> 1) @@
    ("lightSources[0].position" :> <<-700, 700, 1000>>) @@
    ("lightSources[0].ambientColor" :> <<80, 80, 70>>) @@
    ("lightSources[0].diffuseColor" :> <<100, 95, 85>>) @@
    ("lightSources[0].specularColor" :> <<100, 100, 100>>) @@
    ("lightSources[0].focalStrength" :> 3200) @@
    ("lightSources[0].specularIntensity" :> 70) @@
    ("lightSources[1].position" :> <<700, -600, 100>>) @@
    ("lightSources[1].ambientColor" :> <<80, 80, 70>>) @@
    ("lightSources[1].diffuseColor" :> <<100, 95, 85>>) @@
    ("lightSources[1].specularColor" :> <<100, 100, 100>>) @@
    ("lightSources[1].focalStrength" :> 3200) @@
    ("lightSources[1].specularIntensity" :> 70) @@
    ("lightSources[2].position" :> <<700, 700, 500>>) @@
    ("lightSources[2].ambientColor" :> <<80, 80, 70>>) @@
    ("lightSources[2].diffuseColor" :> <<100, 95, 85>>) @@
    ("lightSources[2].specularColor" :> <<100, 100, 100>>) @@
    ("lightSources[2].focalStrength" :> 1600) @@
    ("lightSources[2].specularIntensity" :> 70) @@
    ("lightSources[3].position" :> <<-700, -600, 100>>) @@
    ("lightSources[3].ambientColor" :> <<80, 80, 70>>) @@
    ("lightSources[3].diffuseColor" :> <<100, 95, 85>>) @@
    ("lightSources[3].specularColor" :> <<100, 100, 100>>) @@
    ("lightSources[3].focalStrength" :> 3200) @@
    ("lightSources[3].specularIntensity" :> 70)

\* m_pShaderManager is dereferenced without a NULL test
SetupSceneLights ==
    /\ m_pShaderManager # "NULL"
    /\ call' = [op |-> "SetupSceneLights"]
    /\ uniforms' = LightUniforms @@ uniforms
    /\ uploads' = LightUniformNames
    /\ UNCHANGED <<texVars, glVars, firstID, m_objectMaterials,
                   m_pShaderManager>>

---------------------------------------------------------------------------
(* Transform composer *)

\* 4x4 matrices are tuples of four rows of four entries, in hundredths
Mat4Entry(A, B, i, j) ==
    (A[i][1] * B[1][j] + A[i][2] * B[2][j] +
     A[i][3] * B[3][j] + A[i][4] * B[4][j]) \div Unit

Mat4Row(A, B, i) ==
    <<Mat4Entry(A, B, i, 1), Mat4Entry(A, B, i, 2),
      Mat4Entry(A, B, i, 3), Mat4Entry(A, B, i, 4)>>

Mat4Mul(A, B) ==
    <<Mat4Row(A, B, 1), Mat4Row(A, B, 2), Mat4Row(A, B, 3), Mat4Row(A, B, 4)>>

\* glm::radians: the angle in quarter turns (angles are multiples of 90)
Radians(degrees) == (degrees \div 90) % 4

\* cosine and sine of an angle given in quarter turns, in hundredths
Cos(quarterTurns) ==
    CASE quarterTurns = 0 -> Unit
      [] quarterTurns = 1 -> 0
      [] quarterTurns = 2 -> -Unit
      [] quarterTurns = 3 -> 0

Sin(quarterTurns) ==
    CASE quarterTurns = 0 -> 0
      [] quarterTurns = 1 -> Unit
      [] quarterTurns = 2 -> 0
      [] quarterTurns = 3 -> -Unit

\* glm::scale(scaleXYZ)
GlmScale(v) ==
    << <<v[1], 0, 0, 0>>,
       <<0, v[2], 0, 0>>,
       <<0, 0, v[3], 0>>,
       <<0, 0, 0, Unit>> >>

\* glm::rotate(angle, glm::vec3(1.0f, 0.0f, 0.0f))
GlmRotateX(angle) ==
    << <<Unit, 0, 0, 0>>,
       <<0, Cos(angle), -Sin(angle), 0>>,
       <<0, Sin(angle), Cos(angle), 0>>,
       <<0, 0, 0, Unit>> >>

\* glm::rotate(angle, glm::vec3(0.0f, 1.0f, 0.0f))
GlmRotateY(angle) ==
    << <<Cos(angle), 0, Sin(angle), 0>>,
       <<0, Unit, 0, 0>>,
       <<-Sin(angle), 0, Cos(angle), 0>>,
       <<0, 0, 0, Unit>> >>

\* glm::rotate(angle, glm::vec3(0.0f, 0.0f, 1.0f))
GlmRotateZ(angle) ==
    << <<Cos(angle), -Sin(angle), 0, 0>>,
       <<Sin(angle), Cos(angle), 0, 0>>,
       <<0, 0, Unit, 0>>,
       <<0, 0, 0, Unit>> >>

\* glm::translate(positionXYZ)
GlmTranslate(v) ==
    << <<Unit, 0, 0, v[1]>>,
       <<0, Unit, 0, v[2]>>,
       <<0, 0, Unit, v[3]>>,
       <<0, 0, 0, Unit>> >>

\* mutant of ModelView: the matrices are multiplied in the opposite order
ModelViewReversed(scaleXYZ, XrotationDegrees, YrotationDegrees, ZrotationDegrees, positionXYZ) ==
    LET scale       == GlmScale(scaleXYZ)
        rotationX   == GlmRotateX(Radians(XrotationDegrees))
        rotationY   == GlmRotateY(Radians(YrotationDegrees))
        rotationZ   == GlmRotateZ(Radians(ZrotationDegrees))
        translation == GlmTranslate(positionXYZ)
    IN Mat4Mul(Mat4Mul(Mat4Mul(Mat4Mul(scale, rotationX), rotationY),
                       rotationZ), translation)

\* modelView = translation * rotationZ * rotationY * rotationX * scale
ModelView(scaleXYZ, XrotationDegrees, YrotationDegrees, ZrotationDegrees, positionXYZ) ==
    LET scale       == GlmScale(scaleXYZ)
        rotationX   == GlmRotateX(Radians(XrotationDegrees))
        rotationY   == GlmRotateY(Radians(YrotationDegrees))
        rotationZ   == GlmRotateZ(Radians(ZrotationDegrees))
        translation == GlmTranslate(positionXYZ)
    IN Mat4Mul(Mat4Mul(Mat4Mul(Mat4Mul(translation, rotationZ), rotationY),
                       rotationX), scale)

SetTransformations(scaleXYZ, XrotationDegrees, YrotationDegrees, ZrotationDegrees, positionXYZ) ==
    LET modelView == ModelView(scaleXYZ, XrotationDegrees, YrotationDegrees,
                               ZrotationDegrees, positionXYZ)
    IN
    /\ call' = [op |-> "SetTransformations", scaleXYZ |-> scaleXYZ,
                XrotationDegrees |-> XrotationDegrees,
                YrotationDegrees |-> YrotationDegrees,
                ZrotationDegrees |-> ZrotationDegrees,
                positionXYZ |-> positionXYZ]
    /\ IF m_pShaderManager # "NULL"
       THEN /\ uniforms' = ("model" :> modelView) @@ uniforms
            /\ uploads' = <<"model">>
       ELSE /\ uploads' = <<>>
            /\ UNCHANGED uniforms
    /\ UNCHANGED <<texVars, glVars, firstID, m_objectMaterials,
                   m_pShaderManager>>

---------------------------------------------------------------------------
(* The transform composer and the other uniform setters driven by          *)
(* arbitrary calls, on a scene manager built with or without a shader      *)
(* manager and with materials defined or not                                *)

ScaleVectors == { <<200, 50, 300>> }
PositionVectors == { <<0, 0, 0>>, <<100, -200, 325>> }
Angles == {0, 90, 180, 270}
Colors == { <<50, 50, 50, 100>>, <<80, 50, 30, 100>> }

InitXform ==
    /\ m_objectMaterials \in { <<>>, <<ShinyMaterial, DullMaterial>> }
    /\ m_pShaderManager \in {"NULL", "shader"}
    /\ uniforms = NoUniforms
    /\ uploads = <<>>
    /\ m_loadedTextures = 0
    /\ m_textureIDs = [i \in 0..(MaxTextureSlots - 1) |-> EmptySlot]
    /\ overrun = 0
    /\ glGenCount = 0
    /\ glTextures = {}
    /\ glActiveUnit = 0
    /\ glUnits = [u \in 0..(MaxTextureSlots - 1) |-> 0]
    /\ imageBuffers = 0
    /\ firstID = [t \in {} |-> 0]
    /\ call = NoCall
    /\ loadedMeshes = {}
    /\ pc = [fn |-> "idle", i |-> 0]
    /\ prepared = FALSE
    /\ frame = <<>>
    /\ firstFrame = <<>>
    /\ prepareCalls = <<>>

NextXform ==
    \/ /\ \E s \in ScaleVectors, p \in PositionVectors,
            x \in Angles, y \in Angles, z \in Angles :
            SetTransformations(s, x, y, z, p)
       /\ UNCHANGED sceneVars
    \/ /\ \E c \in Colors : SetShaderColor(c[1], c[2], c[3], c[4])
       /\ UNCHANGED sceneVars
    \/ /\ \E uv \in { <<100, 50>> } : SetTextureUVScale(uv[1], uv[2])
       /\ UNCHANGED sceneVars

SpecXform == InitXform /\ [][NextXform]_vars

---------------------------------------------------------------------------
(* Scene script *)

\* bound: image files that fail to load in one PrepareScene
MaxLoadFailures == 1

Idle == [fn |-> "idle", i |-> 0]

\* m_basicMeshes->Load<X>Mesh()
LoadMesh(mesh) ==
    /\ loadedMeshes' = loadedMeshes \cup {mesh}
    /\ call' = [op |-> "LoadMesh", mesh |-> mesh]
    /\ uploads' = <<>>
    /\ UNCHANGED <<texVars, glVars, firstID, m_objectMaterials, shaderVars>>

\* m_basicMeshes->Draw<X>Mesh()
DrawMesh(mesh) ==
    /\ call' = [op |-> "DrawMesh", mesh |-> mesh]
    /\ uploads' = <<>>
    /\ UNCHANGED <<texVars, glVars, firstID, m_objectMaterials, shaderVars,
                   loadedMeshes>>

\* the statements of PrepareScene, in order
PrepareStatements ==
    <<
      [op |-> "LoadMesh", mesh |-> "Plane"],
      [op |-> "LoadMesh", mesh |-> "Box"],
      [op |-> "LoadMesh", mesh |-> "TaperedCylinder"],
      [op |-> "LoadMesh", mesh |-> "Prism"],
      [op |-> "LoadMesh", mesh |-> "Pyramid3"],
      [op |-> "CreateGLTexture", filename |-> "textures/Brick.jpg", tag |-> "brick"],
      [op |-> "CreateGLTexture", filename |-> "textures/Wood Test.jpg", tag |-> "wood"],
      [op |-> "CreateGLTexture", filename |-> "textures/Wall.jpg", tag |-> "wall"],
      [op |-> "CreateGLTexture", filename |-> "textures/Grass.jpg", tag |-> "grass"],
      [op |-> "CreateGLTexture", filename |-> "textures/PatternCement.jpeg", tag |-> "cement"],
      [op |-> "CreateGLTexture", filename |-> "textures/LightTan.jpg", tag |-> "beam"],
      [op |-> "CreateGLTexture", filename |-> "textures/door.jpg", tag |-> "door"],
      [op |-> "CreateGLTexture", filename |-> "textures/outergreen.jpg", tag |-> "outergreen"],
      [op |-> "CreateGLTexture", filename |-> "textures/concrete.jpeg", tag |-> "concrete"],
      [op |-> "CreateGLTexture", filename |-> "textures/roof.jpg", tag |-> "roof"],
      [op |-> "CreateGLTexture", filename |-> "textures/glass.jpg", tag |-> "window"],
      [op |-> "CreateGLTexture", filename |-> "textures/garagedoor.jpg", tag |-> "garage"],
      [op |-> "BindGLTextures"]
    >>

\* mutant of PrepareScript: the prism mesh is not loaded
PrepareScriptNoPrism ==
    SelectSeq(PrepareStatements,
              LAMBDA st : ~(st.op = "LoadMesh" /\ st.mesh = "Prism"))

\* what PrepareScene executes
PrepareScript == PrepareStatements

\* the statements of RenderScene, in order, with the values the locals
\* scaleXYZ, XrotationDegrees, YrotationDegrees, ZrotationDegrees and
\* positionXYZ hold at each SetTransformations
RenderStatements ==
    <<
      [op |-> "SetTransformations", scaleXYZ |-> <<2000, 100, 1000>>, XrotationDegrees |-> 0, YrotationDegrees |-> 0, ZrotationDegrees |-> 0, positionXYZ |-> <<0, 0, 0>>],
      [op |-> "SetShaderColor", color |-> <<50, 50, 50, 100>>],
      [op |-> "SetShaderTexture", tag |-> "grass"],
      [op |-> "SetTextureUVScale", uv |-> <<100, 100>>],
      [op |-> "SetShaderMaterial", tag |-> "metal"],
      [op |-> "DrawMesh", mesh |-> "Plane"],
      [op |-> "SetTransformations", scaleXYZ |-> <<2000, 100, 1000>>, XrotationDegrees |-> 90, YrotationDegrees |-> 0, ZrotationDegrees |-> 0, positionXYZ |-> <<0, 900, -1000>>],
      [op |-> "SetShaderColor", color |-> <<55, 55, 55, 100>>],
      [op |-> "SetShaderMaterial", tag |-> "metal"],
      [op |-> "DrawMesh", mesh |-> "Plane"],
      [op |-> "SetTransformations", scaleXYZ |-> <<100, 50, 100>>, XrotationDegrees |-> 0, YrotationDegrees |-> 0, ZrotationDegrees |-> 0, positionXYZ |-> <<675, 25, 300>>],
      [op |-> "SetShaderColor", color |-> <<25, 17, 7, 100>>],
      [op |-> "SetShaderTexture", tag |-> "wood"],
      [op |-> "SetTextureUVScale", uv |-> <<100, 50>>],
      [op |-> "SetShaderMaterial", tag |-> "wood"],
      [op |-> "DrawMesh", mesh |-> "Box"],
      [op |-> "SetTransformations", scaleXYZ |-> <<30, 300, 30>>, XrotationDegrees |-> 0, YrotationDegrees |-> 0, ZrotationDegrees |-> 0, positionXYZ |-> <<675, 50, 300>>],
      [op |-> "SetShaderColor", color |-> <<40, 20, 10, 100>>],
      [op |-> "SetShaderTexture", tag |-> "wood"],
      [op |-> "SetTextureUVScale", uv |-> <<180, 300>>],
      [op |-> "SetShaderMaterial", tag |-> "wood"],
      [op |-> "DrawMesh", mesh |-> "TaperedCylinder"],
      [op |-> "SetTransformations", scaleXYZ |-> <<100, 50, 100>>, XrotationDegrees |-> 0, YrotationDegrees |-> 0, ZrotationDegrees |-> 0, positionXYZ |-> <<475, 25, 300>>],
      [op |-> "SetShaderColor", color |-> <<25, 17, 7, 100>>],
      [op |-> "SetShaderTexture", tag |-> "wood"],
      [op |-> "SetTextureUVScale", uv |-> <<100, 50>>],
      [op |-> "SetShaderMaterial", tag |-> "wood"],
      [op |-> "DrawMesh", mesh |-> "Box"],
      [op |-> "SetTransformations", scaleXYZ |-> <<30, 300, 30>>, XrotationDegrees |-> 0, YrotationDegrees |-> 0, ZrotationDegrees |-> 0, positionXYZ |-> <<475, 50, 300>>],
      [op |-> "SetShaderColor", color |-> <<40, 20, 10, 100>>],
      [op |-> "SetShaderTexture", tag |-> "wood"],
      [op |-> "SetTextureUVScale", uv |-> <<180, 300>>],
      [op |-> "SetShaderMaterial", tag |-> "wood"],
      [op |-> "DrawMesh", mesh |-> "TaperedCylinder"],
      [op |-> "SetTransformations", scaleXYZ |-> <<100, 50, 100>>, XrotationDegrees |-> 0, YrotationDegrees |-> 0, ZrotationDegrees |-> 0, positionXYZ |-> <<25, 25, 300>>],
      [op |-> "SetShaderColor", color |-> <<25, 17, 7, 100>>],
      [op |-> "SetShaderTexture", tag |-> "wood"],
      [op |-> "SetTextureUVScale", uv |-> <<100, 50>>],
      [op |-> "SetShaderMaterial", tag |-> "wood"],
      [op |-> "DrawMesh", mesh |-> "Box"],
      [op |-> "SetTransformations", scaleXYZ |-> <<30, 300, 30>>, XrotationDegrees |-> 0, YrotationDegrees |-> 0, ZrotationDegrees |-> 0, positionXYZ |-> <<25, 50, 300>>],
      [op |-> "SetShaderColor", color |-> <<40, 20, 10, 100>>],
      [op |-> "SetShaderTexture", tag |-> "wood"],
      [op |-> "SetTextureUVScale", uv |-> <<180, 300>>],
      [op |-> "SetShaderMaterial", tag |-> "wood"],
      [op |-> "DrawMesh", mesh |-> "TaperedCylinder"],
      [op |-> "SetTransformations", scaleXYZ |-> <<100, 50, 100>>, XrotationDegrees |-> 0, YrotationDegrees |-> 0, ZrotationDegrees |-> 0, positionXYZ |-> <<-200, 25, 300>>],
      [op |-> "SetShaderColor", color |-> <<25, 17, 7, 100>>],
      [op |-> "SetShaderTexture", tag |-> "wood"],
      [op |-> "SetTextureUVScale", uv |-> <<100, 50>>],
      [op |-> "SetShaderMaterial", tag |-> "wood"],
      [op |-> "DrawMesh", mesh |-> "Box"],
      [op |-> "SetTransformations", scaleXYZ |-> <<30, 300, 30>>, XrotationDegrees |-> 0, YrotationDegrees |-> 0, ZrotationDegrees |-> 0, positionXYZ |-> <<-200, 50, 300>>],
      [op |-> "SetShaderColor", color |-> <<40, 20, 10, 100>>],
      [op |-> "SetShaderTexture", tag |-> "wood"],
      [op |-> "SetTextureUVScale", uv |-> <<180, 300>>],
      [op |-> "SetShaderMaterial", tag |-> "wood"],
      [op |-> "DrawMesh", mesh |-> "TaperedCylinder"],
      [op |-> "SetTransformations", scaleXYZ |-> <<1000, 50, 100>>, XrotationDegrees |-> 0, YrotationDegrees |-> 0, ZrotationDegrees |-> 0, positionXYZ |-> <<225, 375, 300>>],
      [op |-> "SetShaderColor", color |-> <<80, 50, 30, 100>>],
      [op |-> "SetShaderTexture", tag |-> "roof"],
      [op |-> "SetTextureUVScale", uv |-> <<800, 100>>],
      [op |-> "SetShaderMaterial", tag |-> "wood"],
      [op |-> "DrawMesh", mesh |-> "Box"],
      [op |-> "SetTransformations", scaleXYZ |-> <<1500, 350, 800>>, XrotationDegrees |-> 0, YrotationDegrees |-> 0, ZrotationDegrees |-> 0, positionXYZ |-> <<-1025, 185, -450>>],
      [op |-> "SetShaderColor", color |-> <<80, 50, 30, 100>>],
      [op |-> "SetShaderTexture", tag |-> "outergreen"],
      [op |-> "SetTextureUVScale", uv |-> <<400, 100>>],
      [op |-> "SetShaderMaterial", tag |-> "wood"],
      [op |-> "DrawMesh", mesh |-> "Box"],
      [op |-> "SetTransformations", scaleXYZ |-> <<700, 350, 800>>, XrotationDegrees |-> 0, YrotationDegrees |-> 0, ZrotationDegrees |-> 0, positionXYZ |-> <<425, 150, -450>>],
      [op |-> "SetShaderColor", color |-> <<80, 50, 30, 100>>],
      [op |-> "SetShaderTexture", tag |-> "brick"],
      [op |-> "SetTextureUVScale", uv |-> <<800, 100>>],
      [op |-> "SetShaderMaterial", tag |-> "wood"],
      [op |-> "DrawMesh", mesh |-> "Box"],
      [op |-> "SetTransformations", scaleXYZ |-> <<375, 10, 1550>>, XrotationDegrees |-> 0, YrotationDegrees |-> 0, ZrotationDegrees |-> 0, positionXYZ |-> <<-100, 0, 220>>],
      [op |-> "SetShaderColor", color |-> <<80, 50, 30, 100>>],
      [op |-> "SetShaderTexture", tag |-> "concrete"],
      [op |-> "SetTextureUVScale", uv |-> <<100, 100>>],
      [op |-> "SetShaderMaterial", tag |-> "wood"],
      [op |-> "DrawMesh", mesh |-> "Box"],
      [op |-> "SetTransformations", scaleXYZ |-> <<975, 10, 525>>, XrotationDegrees |-> 0, YrotationDegrees |-> 0, ZrotationDegrees |-> 0, positionXYZ |-> <<290, 0, 95>>],
      [op |-> "SetShaderColor", color |-> <<80, 50, 30, 100>>],
      [op |-> "SetShaderTexture", tag |-> "concrete"],
      [op |-> "SetTextureUVScale", uv |-> <<100, 100>>],
      [op |-> "SetShaderMaterial", tag |-> "wood"],
      [op |-> "DrawMesh", mesh |-> "Box"],
      [op |-> "SetTransformations", scaleXYZ |-> <<375, 340, 400>>, XrotationDegrees |-> 0, YrotationDegrees |-> 0, ZrotationDegrees |-> 0, positionXYZ |-> <<-100, 195, -645>>],
      [op |-> "SetShaderColor", color |-> <<80, 50, 30, 100>>],
      [op |-> "SetShaderTexture", tag |-> "door"],
      [op |-> "SetTextureUVScale", uv |-> <<100, 100>>],
      [op |-> "SetShaderMaterial", tag |-> "wood"],
      [op |-> "DrawMesh", mesh |-> "Box"],
      [op |-> "SetTransformations", scaleXYZ |-> <<2550, 350, 500>>, XrotationDegrees |-> 0, YrotationDegrees |-> 0, ZrotationDegrees |-> 0, positionXYZ |-> <<-500, 535, -600>>],
      [op |-> "SetShaderColor", color |-> <<80, 50, 30, 100>>],
      [op |-> "SetShaderTexture", tag |-> "wall"],
      [op |-> "SetTextureUVScale", uv |-> <<800, 100>>],
      [op |-> "SetShaderMaterial", tag |-> "wood"],
      [op |-> "DrawMesh", mesh |-> "Box"],
      [op |-> "SetTransformations", scaleXYZ |-> <<300, 300, 300>>, XrotationDegrees |-> 270, YrotationDegrees |-> 0, ZrotationDegrees |-> 0, positionXYZ |-> <<-1625, 500, -200>>],
      [op |-> "SetShaderColor", color |-> <<80, 50, 30, 100>>],
      [op |-> "SetShaderTexture", tag |-> "outergreen"],
      [op |-> "SetTextureUVScale", uv |-> <<100, 100>>],
      [op |-> "SetShaderMaterial", tag |-> "wood"],
      [op |-> "DrawMesh", mesh |-> "Prism"],
      [op |-> "SetTransformations", scaleXYZ |-> <<1300, 250, 400>>, XrotationDegrees |-> 0, YrotationDegrees |-> 0, ZrotationDegrees |-> 0, positionXYZ |-> <<-500, 725, -600>>],
      [op |-> "SetShaderColor", color |-> <<80, 50, 30, 100>>],
      [op |-> "SetShaderTexture", tag |-> "roof"],
      [op |-> "SetTextureUVScale", uv |-> <<800, 100>>],
      [op |-> "SetShaderMaterial", tag |-> "wood"],
      [op |-> "DrawMesh", mesh |-> "Plane"],
      [op |-> "SetTransformations", scaleXYZ |-> <<300, 300, 300>>, XrotationDegrees |-> 270, YrotationDegrees |-> 0, ZrotationDegrees |-> 0, positionXYZ |-> <<-425, 500, -200>>],
      [op |-> "SetShaderColor", color |-> <<80, 50, 30, 100>>],
      [op |-> "SetShaderTexture", tag |-> "outergreen"],
      [op |-> "SetTextureUVScale", uv |-> <<100, 100>>],
      [op |-> "SetShaderMaterial", tag |-> "wood"],
      [op |-> "DrawMesh", mesh |-> "Prism"],
      [op |-> "SetTransformations", scaleXYZ |-> <<200, 100, 100>>, XrotationDegrees |-> 90, YrotationDegrees |-> 0, ZrotationDegrees |-> 0, positionXYZ |-> <<-1000, 525, -300>>],
      [op |-> "SetShaderColor", color |-> <<50, 50, 50, 100>>],
      [op |-> "SetShaderTexture", tag |-> "window"],
      [op |-> "SetTextureUVScale", uv |-> <<100, 100>>],
      [op |-> "SetShaderMaterial", tag |-> "metal"],
      [op |-> "DrawMesh", mesh |-> "Plane"],
      [op |-> "SetTransformations", scaleXYZ |-> <<200, 100, 100>>, XrotationDegrees |-> 90, YrotationDegrees |-> 0, ZrotationDegrees |-> 0, positionXYZ |-> <<300, 525, -300>>],
      [op |-> "SetShaderColor", color |-> <<50, 50, 50, 100>>],
      [op |-> "SetShaderTexture", tag |-> "window"],
      [op |-> "SetTextureUVScale", uv |-> <<100, 100>>],
      [op |-> "SetShaderMaterial", tag |-> "metal"],
      [op |-> "DrawMesh", mesh |-> "Plane"],
      [op |-> "SetTransformations", scaleXYZ |-> <<200, 100, 100>>, XrotationDegrees |-> 90, YrotationDegrees |-> 0, ZrotationDegrees |-> 0, positionXYZ |-> <<400, 200, 0>>],
      [op |-> "SetShaderColor", color |-> <<50, 50, 50, 100>>],
      [op |-> "SetShaderTexture", tag |-> "window"],
      [op |-> "SetTextureUVScale", uv |-> <<100, 100>>],
      [op |-> "SetShaderMaterial", tag |-> "metal"],
      [op |-> "DrawMesh", mesh |-> "Plane"],
      [op |-> "SetTransformations", scaleXYZ |-> <<550, 100, 150>>, XrotationDegrees |-> 90, YrotationDegrees |-> 0, ZrotationDegrees |-> 0, positionXYZ |-> <<-1000, 175, 0>>],
      [op |-> "SetShaderColor", color |-> <<50, 50, 50, 100>>],
      [op |-> "SetShaderTexture", tag |-> "garage"],
      [op |-> "SetTextureUVScale", uv |-> <<0, 100>>],
      [op |-> "SetShaderMaterial", tag |-> "metal"],
      [op |-> "DrawMesh", mesh |-> "Plane"],
      [op |-> "SetTransformations", scaleXYZ |-> <<800, 100, 400>>, XrotationDegrees |-> 0, YrotationDegrees |-> 0, ZrotationDegrees |-> 0, positionXYZ |-> <<-1075, 370, -425>>],
      [op |-> "SetShaderColor", color |-> <<80, 50, 30, 100>>],
      [op |-> "SetShaderTexture", tag |-> "roof"],
      [op |-> "SetTextureUVScale", uv |-> <<400, 100>>],
      [op |-> "SetShaderMaterial", tag |-> "wood"],
      [op |-> "DrawMesh", mesh |-> "Plane"],
      [op |-> "SetTransformations", scaleXYZ |-> <<500, 100, 500>>, XrotationDegrees |-> 0, YrotationDegrees |-> 0, ZrotationDegrees |-> 0, positionXYZ |-> <<225, 350, -175>>],
      [op |-> "SetShaderColor", color |-> <<80, 50, 30, 100>>],
      [op |-> "SetShaderTexture", tag |-> "roof"],
      [op |-> "SetTextureUVScale", uv |-> <<800, 100>>],
      [op |-> "SetShaderMaterial", tag |-> "wood"],
      [op |-> "DrawMesh", mesh |-> "Plane"],
      [op |-> "SetTransformations", scaleXYZ |-> <<550, 100, 700>>, XrotationDegrees |-> 0, YrotationDegrees |-> 0, ZrotationDegrees |-> 0, positionXYZ |-> <<-1000, 1, 300>>],
      [op |-> "SetShaderColor", color |-> <<50, 50, 50, 100>>],
      [op |-> "SetShaderTexture", tag |-> "concrete"],
      [op |-> "SetTextureUVScale", uv |-> <<100, 100>>],
      [op |-> "SetShaderMaterial", tag |-> "metal"],
      [op |-> "DrawMesh", mesh |-> "Plane"]
    >>

\* mutant of RenderScript: in the first block the material is set before
\* the colour
RenderScriptSwapped ==
    [k \in 1..Len(RenderStatements) |->
       IF k = 2 THEN RenderStatements[5]
       ELSE IF k = 5 THEN RenderStatements[2]
       ELSE RenderStatements[k]]

\* what RenderScene executes
RenderScript == RenderStatements

\* the CreateGLTexture calls of PrepareScene that have returned false when
\* statement i is the next to execute
LoadFailures(i) ==
    Cardinality({ k \in 1..(i - 1) : PrepareScript[k].op = "CreateGLTexture" })
      - m_loadedTextures

\* what PrepareScene's history keeps of a call: for CreateGLTexture the tag
\* and the result, not the image
Outcome(c) ==
    IF c.op = "CreateGLTexture"
    THEN [op |-> c.op, tag |-> c.tag, ret |-> c.ret]
    ELSE c

PrepareSceneBegin ==
    /\ pc = Idle
    /\ ~prepared
    /\ pc' = [fn |-> "PrepareScene", i |-> 1]
    /\ call' = [op |-> "PrepareScene"]
    /\ uploads' = <<>>
    /\ UNCHANGED <<texVars, glVars, firstID, m_objectMaterials, shaderVars,
                   loadedMeshes, prepared, frame, firstFrame, prepareCalls>>

PrepareSceneStep ==
    /\ pc.fn = "PrepareScene"
    /\ LET st == PrepareScript[pc.i]
       IN \/ /\ st.op = "LoadMesh"
             /\ LoadMesh(st.mesh)
          \/ /\ st.op = "CreateGLTexture"
             /\ \E file \in Files :
                  /\ CreateGLTextureResult(file)
                       \/ LoadFailures(pc.i) < MaxLoadFailures
                  /\ CreateGLTexture(file, st.tag)
             /\ UNCHANGED loadedMeshes
          \/ /\ st.op = "BindGLTextures"
             /\ BindGLTextures
             /\ UNCHANGED loadedMeshes
    /\ IF pc.i = Len(PrepareScript)
       THEN /\ pc' = Idle
            /\ prepared' = TRUE
       ELSE /\ pc' = [pc EXCEPT !.i = pc.i + 1]
            /\ UNCHANGED prepared
    /\ prepareCalls' = Append(prepareCalls, Outcome(call'))
    /\ UNCHANGED <<frame, firstFrame>>

RenderSceneBegin ==
    /\ pc = Idle
    /\ pc' = [fn |-> "RenderScene", i |-> 1]
    /\ frame' = <<>>
    /\ call' = [op |-> "RenderScene"]
    /\ uploads' = <<>>
    /\ UNCHANGED <<texVars, glVars, firstID, m_objectMaterials, shaderVars,
                   loadedMeshes, prepared, firstFrame, prepareCalls>>

RenderSceneStep ==
    /\ pc.fn = "RenderScene"
    /\ LET st == RenderScript[pc.i]
       IN \/ /\ st.op = "SetTransformations"
             /\ SetTransformations(st.scaleXYZ, st.XrotationDegrees,
                                   st.YrotationDegrees, st.ZrotationDegrees,
                                   st.positionXYZ)
             /\ UNCHANGED loadedMeshes
          \/ /\ st.op = "SetShaderColor"
             /\ SetShaderColor(st.color[1], st.color[2], st.color[3],
                               st.color[4])
             /\ UNCHANGED loadedMeshes
          \/ /\ st.op = "SetShaderTexture"
             /\ SetShaderTexture(st.tag)
             /\ UNCHANGED loadedMeshes
          \/ /\ st.op = "SetTextureUVScale"
             /\ SetTextureUVScale(st.uv[1], st.uv[2])
             /\ UNCHANGED loadedMeshes
          \/ /\ st.op = "SetShaderMaterial"
             /\ SetShaderMaterial(st.tag)
             /\ UNCHANGED loadedMeshes
          \/ /\ st.op = "DrawMesh"
             /\ DrawMesh(st.mesh)
    /\ frame' = Append(frame, call')
    /\ IF pc.i = Len(RenderScript)
       THEN /\ pc' = Idle
            /\ firstFrame' = IF firstFrame = <<>> THEN frame' ELSE firstFrame
       ELSE /\ pc' = [pc EXCEPT !.i = pc.i + 1]
            /\ UNCHANGED firstFrame
    /\ UNCHANGED <<prepared, prepareCalls>>

\* the host defines the materials (once) between two scene calls
HostDefineObjectMaterials ==
    /\ pc = Idle
    /\ Len(m_objectMaterials) = 0
    /\ DefineObjectMaterials
    /\ UNCHANGED sceneVars

\* the host sets up the lights (once) between two scene calls
HostSetupSceneLights ==
    /\ pc = Idle
    /\ "bUseLighting" \notin DOMAIN uniforms
    /\ SetupSceneLights
    /\ UNCHANGED sceneVars

NextScene ==
    \/ PrepareSceneBegin
    \/ PrepareSceneStep
    \/ RenderSceneBegin
    \/ RenderSceneStep
    \/ HostDefineObjectMaterials
    \/ HostSetupSceneLights

SpecScene == Init /\ [][NextScene]_vars

---------------------------------------------------------------------------
(* The material registry driven by arbitrary calls *)

NextMat ==
    \/ /\ Len(m_objectMaterials) < 2 * MaxDefineCalls
       /\ DefineObjectMaterials
       /\ UNCHANGED sceneVars
    \/ /\ \E tag \in MaterialTags, material \in CallerMaterials :
            FindMaterial(tag, material)
       /\ UNCHANGED sceneVars
    \/ /\ \E tag \in MaterialTags : SetShaderMaterial(tag)
       /\ UNCHANGED sceneVars

SpecMat == Init /\ [][NextMat]_vars

---------------------------------------------------------------------------
(* The texture registry driven by arbitrary calls *)

Next ==
    \/ /\ \E file \in Files, tag \in Tags :
            /\ glGenCount < MaxGLNames
            /\ CreateGLTexture(file, tag)
       /\ UNCHANGED sceneVars
    \/ /\ BindGLTextures
       /\ UNCHANGED sceneVars
    \/ /\ glGenCount + m_loadedTextures <= MaxGLNames
       /\ DestroyGLTextures
       /\ UNCHANGED sceneVars
    \/ /\ \E tag \in Tags : FindTextureID(tag)
       /\ UNCHANGED sceneVars
    \/ /\ \E tag \in Tags : FindTextureSlot(tag)
       /\ UNCHANGED sceneVars

Spec == Init /\ [][Next]_vars

---------------------------------------------------------------------------
(* The texture registry filled up to and past its capacity: one tag, an    *)
(* image that loads and one that does not.                                  *)

CapFiles == { f \in Files : f.decoded => f.channels = 3 }

NextCap ==
    \/ /\ \E file \in CapFiles : CreateGLTexture(file, "brick")
       /\ UNCHANGED sceneVars
    \/ /\ BindGLTextures
       /\ UNCHANGED sceneVars
    \/ /\ \E tag \in {"brick", "wood"} : FindTextureSlot(tag)
       /\ UNCHANGED sceneVars

SpecCap == Init /\ [][NextCap]_vars

---------------------------------------------------------------------------
(* Properties of the texture registry *)

\* the slots that are registered
Registered == 0..(m_loadedTextures - 1)

\* the registered slots whose entry carries the tag
SlotsOf(tag) == { i \in Registered : m_textureIDs[i].tag = tag }

\* C1: the texture registry never holds more than 16 entries: after any
\* sequence of CreateGLTexture calls m_loadedTextures is at most 16 and no
\* entry is written at an index of 16 or above.
C1_RegistryWithinCapacity ==
    /\ m_loadedTextures <= MaxTextureSlots
    /\ overrun = 0

\* C2: the result of CreateGLTexture tells whether the texture was
\* registered. It is false exactly when the image was not decoded or its
\* channel count is neither 3 nor 4; on true the count grew by one, the new
\* last entry holds the passed tag and the newly generated texture ID and
\* the entries before it are as they were; on false the count and every
\* entry are unchanged.
C2_CreateStep ==
    call'.op = "CreateGLTexture" =>
      /\ call'.ret = (call'.file.decoded /\ call'.file.channels \in {3, 4})
      /\ call'.ret =>
            /\ m_loadedTextures' = m_loadedTextures + 1
            /\ m_textureIDs'[m_loadedTextures].tag = call'.tag
            /\ m_textureIDs'[m_loadedTextures].ID \notin glTextures
            /\ m_textureIDs'[m_loadedTextures].ID \in glTextures'
            /\ \A i \in Registered : m_textureIDs'[i] = m_textureIDs[i]
      /\ ~call'.ret =>
            /\ m_loadedTextures' = m_loadedTextures
            /\ m_textureIDs' = m_textureIDs

C2_CreateResult == [][C2_CreateStep]_vars

\* C2 witness: a second texture has just been registered after the first
C2_Witness ==
    /\ call.op = "CreateGLTexture"
    /\ call.ret
    /\ m_loadedTextures = 2
    /\ m_textureIDs[1].tag = call.tag
    /\ m_textureIDs[0].tag # call.tag

\* C3: FindTextureSlot(tag) returns the smallest registered index whose
\* entry carries the tag, returns -1 exactly when no registered entry
\* carries it, and does not modify the registry.
C3_SlotIsFirstMatch ==
    call.op = "FindTextureSlot" =>
      /\ (call.ret = -1) <=> (SlotsOf(call.tag) = {})
      /\ SlotsOf(call.tag) # {} =>
            /\ call.ret \in SlotsOf(call.tag)
            /\ \A j \in SlotsOf(call.tag) : call.ret <= j

C3_FindTextureSlot ==
    /\ []C3_SlotIsFirstMatch
    /\ [][call'.op = "FindTextureSlot" =>
            UNCHANGED <<m_loadedTextures, m_textureIDs>>]_vars

\* C3 witness: the tag looked up is registered twice, at slots 1 and 2
C3_Witness ==
    /\ call.op = "FindTextureSlot"
    /\ call.ret = 1
    /\ SlotsOf(call.tag) = {1, 2}

\* C4: FindTextureID and FindTextureSlot agree for every tag: one is -1
\* exactly when the other is, and otherwise FindTextureID is the ID stored
\* at the slot FindTextureSlot returns, which is the ID the earliest
\* successful CreateGLTexture with that tag gave to it.
C4_IDMatchesSlot ==
    \A tag \in Tags :
      LET slot == FindTextureSlotResult(m_textureIDs, m_loadedTextures, tag)
          id   == FindTextureIDResult(m_textureIDs, m_loadedTextures, tag)
      IN /\ (id = -1) <=> (slot = -1)
         /\ slot # -1 =>
               /\ id = m_textureIDs[slot].ID
               /\ tag \in DOMAIN firstID
               /\ id = firstID[tag]

---------------------------------------------------------------------------
(* Properties of the material registry *)

\* the five values FindMaterial copies
MaterialValues(m) ==
    <<m.ambientColor, m.ambientStrength, m.diffuseColor, m.specularColor,
      m.shininess>>

\* C5: after DefineObjectMaterials has been called once on an empty
\* registry, FindMaterial("metal") yields the shiny preset (shininess 64,
\* specular 0.5/0.5/0.5, ambient colour 0.3/0.1/0.1) and FindMaterial("wood")
\* the dull preset (shininess 16, specular 0.1/0.1/0.1, ambient colour
\* 0.1/0.1/0.1), with all five values copied from the registered entry.
C5_PresetsFound ==
    (call.op = "FindMaterial" /\ Len(m_objectMaterials) = 2) =>
      /\ call.tag = "metal" =>
            /\ call.ret
            /\ call.material.shininess = 6400
            /\ call.material.specularColor = <<50, 50, 50>>
            /\ call.material.ambientColor = <<30, 10, 10>>
            /\ MaterialValues(call.material) =
                 MaterialValues(m_objectMaterials[1])
      /\ call.tag = "wood" =>
            /\ call.ret
            /\ call.material.shininess = 1600
            /\ call.material.specularColor = <<10, 10, 10>>
            /\ call.material.ambientColor = <<10, 10, 10>>
            /\ MaterialValues(call.material) =
                 MaterialValues(m_objectMaterials[2])

\* C5 witness: "wood" has been looked up after one DefineObjectMaterials,
\* into a material that held other values
C5_Witness ==
    /\ call.op = "FindMaterial"
    /\ Len(m_objectMaterials) = 2
    /\ call.tag = "wood"
    /\ call.materialIn.shininess = 7
    /\ call.material.shininess = 1600

\* C6: FindMaterial returns true exactly when some registered material
\* carries the tag, and when it returns false the caller's material is
\* left unchanged.
C6_FindMaterialResult ==
    call.op = "FindMaterial" =>
      /\ call.ret <=> (\E i \in 1..Len(m_objectMaterials) :
                         m_objectMaterials[i].tag = call.tag)
      /\ ~call.ret => call.material = call.materialIn

---------------------------------------------------------------------------
(* Properties of the transform composer *)

\* what each elementary transformation does to a vertex <<x, y, z>>
ScaleVertex(s, v) ==
    <<(s[1] * v[1]) \div Unit, (s[2] * v[2]) \div Unit,
      (s[3] * v[3]) \div Unit>>

TurnAboutX(degrees, v) ==
    CASE degrees = 0   -> v
      [] degrees = 90  -> <<v[1], -v[3], v[2]>>
      [] degrees = 180 -> <<v[1], -v[2], -v[3]>>
      [] degrees = 270 -> <<v[1], v[3], -v[2]>>

TurnAboutY(degrees, v) ==
    CASE degrees = 0   -> v
      [] degrees = 90  -> <<v[3], v[2], -v[1]>>
      [] degrees = 180 -> <<-v[1], v[2], -v[3]>>
      [] degrees = 270 -> <<-v[3], v[2], v[1]>>

TurnAboutZ(degrees, v) ==
    CASE degrees = 0   -> v
      [] degrees = 90  -> <<-v[2], v[1], v[3]>>
      [] degrees = 180 -> <<-v[1], -v[2], v[3]>>
      [] degrees = 270 -> <<v[2], -v[1], v[3]>>

MoveVertex(p, v) == <<v[1] + p[1], v[2] + p[2], v[3] + p[3]>>

\* the vertex a model matrix sends <<x, y, z>> to
TransformedCoordinate(M, v, i) ==
    (M[i][1] * v[1] + M[i][2] * v[2] + M[i][3] * v[3] + M[i][4] * Unit)
      \div Unit

Transformed(M, v) ==
    <<TransformedCoordinate(M, v, 1), TransformedCoordinate(M, v, 2),
      TransformedCoordinate(M, v, 3)>>

\* the origin, the three axes and one more point
TestVertices ==
    { <<0, 0, 0>>, <<100, 0, 0>>, <<0, 100, 0>>, <<0, 0, 100>>,
      <<100, 200, 300>> }

\* C7: with a shader manager, SetTransformations uploads exactly one
\* uniform, "model", and the matrix uploaded scales a vertex first, then
\* turns it about X, then Y, then Z, then translates it (translation x rotZ
\* x rotY x rotX x scale); the call changes no other uniform and no
\* registry state.
C7_ModelUploaded ==
    (call.op = "SetTransformations" /\ m_pShaderManager # "NULL") =>
      /\ uploads = <<"model">>
      /\ uniforms["model"][4] = <<0, 0, 0, Unit>>
      /\ \A v \in TestVertices :
           Transformed(uniforms["model"], v) =
             MoveVertex(call.positionXYZ,
               TurnAboutZ(call.ZrotationDegrees,
                 TurnAboutY(call.YrotationDegrees,
                   TurnAboutX(call.XrotationDegrees,
                     ScaleVertex(call.scaleXYZ, v)))))

C7_OnlyModelTouched ==
    call'.op = "SetTransformations" =>
      /\ UNCHANGED <<m_loadedTextures, m_textureIDs, m_objectMaterials>>
      /\ DOMAIN uniforms' \subseteq (DOMAIN uniforms \cup {"model"})
      /\ \A name \in DOMAIN uniforms \ {"model"} :
           /\ name \in DOMAIN uniforms'
           /\ uniforms'[name] = uniforms[name]

C7_SetTransformations ==
    /\ []C7_ModelUploaded
    /\ [][C7_OnlyModelTouched]_vars

\* C7 witness: a model matrix with a non-uniform scale, a turn about each
\* of two axes and a translation has been uploaded while the colour
\* uniforms were set
C7_Witness ==
    /\ call.op = "SetTransformations"
    /\ m_pShaderManager # "NULL"
    /\ call.scaleXYZ = <<200, 50, 300>>
    /\ call.XrotationDegrees = 90
    /\ call.ZrotationDegrees = 270
    /\ call.positionXYZ = <<100, -200, 325>>
    /\ "objectColor" \in DOMAIN uniforms
    /\ "model" \in DOMAIN uniforms

---------------------------------------------------------------------------
(* Properties of the scene script *)

\* the positions of the mesh draws in a sequence of calls
DrawIndexes(f) == { k \in 1..Len(f) : f[k].op = "DrawMesh" }

\* the calls made since the draw before the last call of f (or since the
\* start of f when there is none), the last call included
LastBlock(f) ==
    LET earlier == { k \in DrawIndexes(f) : k < Len(f) }
        start   == IF earlier = {} THEN 1
                   ELSE (CHOOSE k \in earlier : \A j \in earlier : j <= k) + 1
    IN SubSeq(f, start, Len(f))

\* the operations of a sequence of calls
OpsOf(f) == [k \in 1..Len(f) |-> f[k].op]

\* the two shapes of a block of RenderScene
BlockShapes ==
    { <<"SetTransformations", "SetShaderColor", "SetShaderMaterial",
        "DrawMesh">>,
      <<"SetTransformations", "SetShaderColor", "SetShaderTexture",
        "SetTextureUVScale", "SetShaderMaterial", "DrawMesh">> }

\* C8: RenderScene is a fixed script. Each draw is preceded, since the
\* previous draw or the start of the call, by exactly one SetTransformations,
\* one SetShaderColor, at most one SetShaderTexture/SetTextureUVScale pair
\* and one SetShaderMaterial, in that order; a completed call has made 27
\* draws, and its calls and their arguments are those of the first
\* completed call whatever the registries held.
C8_FixedScript ==
    /\ (pc.fn = "RenderScene" /\ call.op = "DrawMesh") =>
          OpsOf(LastBlock(frame)) \in BlockShapes
    /\ (pc = Idle /\ frame # <<>>) =>
          /\ OpsOf(LastBlock(frame)) \in BlockShapes
          /\ Cardinality(DrawIndexes(frame)) = 27
          /\ frame = firstFrame

\* C8 witness: a RenderScene has completed with eleven textures registered
\* (one load failed) and the materials defined and passed to the shader
C8_Witness ==
    /\ pc = Idle
    /\ frame # <<>>
    /\ prepared
    /\ m_loadedTextures = 11
    /\ Len(m_objectMaterials) = 2
    /\ "material.shininess" \in DOMAIN uniforms

\* C9: after PrepareScene has returned the material registry contains the
\* "metal" and "wood" presets and the light-source uniforms have been set,
\* and every SetShaderMaterial call of a following RenderScene uploads the
\* material values.
C9_PreparedSceneIsLit ==
    prepared =>
      /\ \E i \in 1..Len(m_objectMaterials) : m_objectMaterials[i].tag = "metal"
      /\ \E i \in 1..Len(m_objectMaterials) : m_objectMaterials[i].tag = "wood"
      /\ \A k \in 1..Len(LightUniformNames) :
           LightUniformNames[k] \in DOMAIN uniforms
      /\ call.op = "SetShaderMaterial" => uploads = MaterialUniforms

\* C10: RenderScene draws only plane, box, tapered-cylinder and prism
\* meshes, and once PrepareScene has returned every mesh it draws has been
\* loaded before it is drawn.
C10_DrawnMeshesLoaded ==
    call.op = "DrawMesh" =>
      /\ call.mesh \in {"Plane", "Box", "TaperedCylinder", "Prism"}
      /\ prepared => call.mesh \in loadedMeshes

\* C10 witness: RenderScene has drawn the prism after PrepareScene returned
C10_Witness ==
    /\ pc.fn = "RenderScene"
    /\ prepared
    /\ call.op = "DrawMesh"
    /\ call.mesh = "Prism"
    /\ "Prism" \in loadedMeshes

---------------------------------------------------------------------------
(* Properties of the GPU resources of the texture registry *)

\* C11: DestroyGLTextures frees all the used texture slots: after it returns
\* every GPU texture object recorded in the registry has been released, and
\* the call has allocated no new GPU texture object.
C11_DestroyStep ==
    call'.op = "DestroyGLTextures" =>
      /\ \A i \in Registered : m_textureIDs[i].ID \notin glTextures'
      /\ glTextures' \subseteq glTextures

C11_DestroyReleases == [][C11_DestroyStep]_vars

\* C12: on every return path of CreateGLTexture on which the image was
\* decoded, the image buffer is freed, the GL_TEXTURE_2D binding is reset
\* to 0, and the GPU texture object the call generated is recorded in the
\* registry or released, also when the channel count is neither 3 nor 4.
C12_CreateStep ==
    (call'.op = "CreateGLTexture" /\ call'.file.decoded) =>
      /\ imageBuffers' = imageBuffers
      /\ glUnits'[glActiveUnit'] = 0
      /\ \A id \in glTextures' \ glTextures :
           \E i \in 0..(m_loadedTextures' - 1) : m_textureIDs'[i].ID = id

C12_CreateReleasesTemporaries == [][C12_CreateStep]_vars

\* C13: when BindGLTextures has returned, texture unit i is bound to the ID
\* of registry entry i for every registered i, so for every registered tag
\* the unit FindTextureSlot returns is bound to the ID FindTextureID
\* returns.
C13_UnitsMatchSlots ==
    call.op = "BindGLTextures" =>
      /\ \A i \in Registered : glUnits[i] = m_textureIDs[i].ID
      /\ \A tag \in Tags :
           LET slot == FindTextureSlotResult(m_textureIDs, m_loadedTextures,
                                             tag)
               id   == FindTextureIDResult(m_textureIDs, m_loadedTextures,
                                           tag)
           IN slot # -1 => glUnits[slot] = id

\* C13 witness: three textures, two of them with the same tag, have been
\* bound
C13_Witness ==
    /\ call.op = "BindGLTextures"
    /\ m_loadedTextures = 3
    /\ m_textureIDs[0].tag = m_textureIDs[2].tag
    /\ m_textureIDs[1].tag # m_textureIDs[0].tag
    /\ glUnits[2] = m_textureIDs[2].ID

---------------------------------------------------------------------------
(* Properties of the uniforms at draw time *)

\* the number of draws a sequence of calls holds
DrawCount(f) == Cardinality(DrawIndexes(f))

\* the tags passed to SetShaderTexture in a sequence of calls
TextureTagsOf(f) ==
    { f[k].tag : k \in { j \in 1..Len(f) : f[j].op = "SetShaderTexture" } }

\* C14: the texture-use flag at a draw is the one set by the last of
\* SetShaderColor (false) and SetShaderTexture (true) before it. In
\* RenderScene the second draw (a plane) is the only one whose block sets no
\* texture and it is issued with bUseTexture false; each of the other 26 of
\* the 27 draws is issued with bUseTexture true and the sampler set to the
\* slot of the tag its block names.
C14_TextureFlagAtDraw ==
    (call.op = "DrawMesh" /\ frame # <<>>) =>
      LET block == LastBlock(frame)
          n     == DrawCount(frame)
      IN /\ n <= 27
         /\ pc = Idle => n = 27
         /\ (TextureTagsOf(block) = {}) <=> (n = 2)
         /\ n = 2 =>
              /\ uniforms["bUseTexture"] = 0
              /\ call.mesh = "Plane"
         /\ n # 2 =>
              /\ uniforms["bUseTexture"] = 1
              /\ \A tag \in TextureTagsOf(block) :
                   uniforms["objectTexture"] =
                     FindTextureSlotResult(m_textureIDs, m_loadedTextures, tag)

\* C14 witness: the second plane has been drawn with bUseTexture false
\* while the sampler still holds the slot the first block set
C14_Witness ==
    /\ pc.fn = "RenderScene"
    /\ prepared
    /\ call.op = "DrawMesh"
    /\ DrawCount(frame) = 2
    /\ uniforms["bUseTexture"] = 0
    /\ uniforms["objectTexture"] >= 0

\* the material values the shader holds
UploadedMaterialValues ==
    <<uniforms["material.ambientColor"], uniforms["material.ambientStrength"],
      uniforms["material.diffuseColor"], uniforms["material.specularColor"],
      uniforms["material.shininess"]>>

---------------------------------------------------------------------------
(* Properties of a scene prepared with image loads that fail *)

\* the CreateGLTexture calls among a sequence of calls
LoadsOf(f) == SelectSeq(f, LAMBDA c : c.op = "CreateGLTexture")

\* the tags whose CreateGLTexture call in PrepareScene returned false
FailedTags ==
    { prepareCalls[k].tag :
        k \in { j \in 1..Len(prepareCalls) :
                  /\ prepareCalls[j].op = "CreateGLTexture"
                  /\ ~prepareCalls[j].ret } }

\* C16: whichever image loads fail, PrepareScene makes all twelve
\* CreateGLTexture calls and then calls BindGLTextures; the registry then
\* holds the textures whose load succeeded, in load order, at slots 0, 1, ...;
\* a RenderScene that follows issues all 27 draws and, in each block whose
\* tag failed to load, draws with sampler value -1 and bUseTexture true.
C16_LoadFailuresTolerated ==
    /\ prepared =>
         LET loaded == SelectSeq(LoadsOf(prepareCalls), LAMBDA c : c.ret)
         IN /\ Len(prepareCalls) = Len(PrepareStatements)
            /\ \A k \in 1..Len(prepareCalls) :
                 /\ prepareCalls[k].op = PrepareStatements[k].op
                 /\ prepareCalls[k].op = "CreateGLTexture" =>
                      prepareCalls[k].tag = PrepareStatements[k].tag
            /\ Len(LoadsOf(prepareCalls)) = 12
            /\ prepareCalls[Len(prepareCalls)].op = "BindGLTextures"
            /\ m_loadedTextures = Len(loaded)
            /\ \A i \in Registered :
                 /\ m_textureIDs[i].tag = loaded[i + 1].tag
                 /\ glUnits[i] = m_textureIDs[i].ID
    /\ (prepared /\ call.op = "DrawMesh" /\ frame # <<>>) =>
         /\ pc = Idle => DrawCount(frame) = 27
         /\ \A tag \in TextureTagsOf(LastBlock(frame)) \cap FailedTags :
              /\ uniforms["objectTexture"] = -1
              /\ uniforms["bUseTexture"] = 1

\* C16 witness: a full frame has been rendered after a PrepareScene in which
\* one load failed, and its last block drew with the sampler at -1
C16_Witness ==
    /\ prepared
    /\ pc = Idle
    /\ call.op = "DrawMesh"
    /\ DrawCount(frame) = 27
    /\ m_loadedTextures = 11
    /\ TextureTagsOf(LastBlock(frame)) \subseteq FailedTags
    /\ uniforms["objectTexture"] = -1
    /\ uniforms["bUseTexture"] = 1

---------------------------------------------------------------------------
(* Properties of a scene prepared with every image loaded *)

\* the tags of the registered textures
RegisteredTags == { m_textureIDs[i].tag : i \in Registered }

\* C17: after a PrepareScene in which all twelve loads succeeded, the
\* registry holds twelve distinct tags and every sampler value RenderScene
\* uploads is a slot in 0..11, never -1: the slot of the entry carrying the
\* tag passed to SetShaderTexture.
C17_RenderTagsRegistered ==
    (prepared /\ m_loadedTextures = 12) =>
      /\ Cardinality(RegisteredTags) = 12
      /\ call.op = "SetShaderTexture" =>
           /\ "objectTexture" \in { uploads[k] : k \in 1..Len(uploads) }
           /\ uniforms["objectTexture"] \in 0..11
           /\ m_textureIDs[uniforms["objectTexture"]].tag = call.tag

\* C17 witness: RenderScene has selected the texture registered last
C17_Witness ==
    /\ prepared
    /\ m_loadedTextures = 12
    /\ pc.fn = "RenderScene"
    /\ call.op = "SetShaderTexture"
    /\ uniforms["objectTexture"] = 11

\* C18: every tag RenderScene passes to SetShaderMaterial is "metal" or
\* "wood"; once DefineObjectMaterials has been called, each of these calls
\* finds a registered material carrying its tag and uploads that material's
\* values.
C18_RenderMaterialsRegistered ==
    (pc.fn = "RenderScene" /\ call.op = "SetShaderMaterial") =>
      /\ call.tag \in {"metal", "wood"}
      /\ Len(m_objectMaterials) > 0 =>
           /\ uploads = MaterialUniforms
           /\ \E i \in 1..Len(m_objectMaterials) :
                /\ m_objectMaterials[i].tag = call.tag
                /\ UploadedMaterialValues = MaterialValues(m_objectMaterials[i])

\* C18 witness: RenderScene has passed the dull material, registered by
\* DefineObjectMaterials, into the shader
C18_Witness ==
    /\ pc.fn = "RenderScene"
    /\ call.op = "SetShaderMaterial"
    /\ call.tag = "wood"
    /\ Len(m_objectMaterials) = 2
    /\ uniforms["material.shininess"] = DullMaterial.shininess

=============================================================================
